---- MODULE Spec2Model ----
(***************************************************************************)
(* Model of preoomkiller-controller (src/main.go).                         *)
(*                                                                         *)
(* src/main.go holds two variants of the controller: the klog variant      *)
(* (lines 1-179) and the logrus variant (lines 181-402).  They share       *)
(* evictPod, Run, main and handleSigterm and differ in RunOnce: the klog   *)
(* variant returns the error of a failed threshold parse, the logrus       *)
(* variant logs it and continues with the next pod, and only the logrus    *)
(* variant keeps an evictionCount.  The variable `variant` selects the     *)
(* build; it never changes.                                                *)
(*                                                                         *)
(* The cluster (pod list, annotations, pod metrics) is chosen by the       *)
(* environment when RunOnce lists the pods and is held fixed for that      *)
(* cycle; the answer of the eviction API is chosen when the request is     *)
(* sent.  The ticker and SIGTERM act at any time.                          *)
(***************************************************************************)
EXTENDS Integers, Sequences, FiniteSets

\* ---------------------------------------------------------------- bounds
MaxPods == 2
MaxContainers == 2

Pods == 1..MaxPods
Readings == {1}

Variants == {"klog", "logrus"}

\* Values of the memory-threshold annotation; "" is an absent annotation
\* (a missing map key reads as the empty string in Go).
Annotations == {"", "abc", "1", "2"}

\* ------------------------------------------------------- pure functions

\* resource.ParseQuantity: a quantity, or an error for the empty string and
\* for text that is no quantity.
ParseQuantity(s) ==
    CASE s = "1" -> [err |-> FALSE, value |-> 1]
      [] s = "2" -> [err |-> FALSE, value |-> 2]
      [] OTHER   -> [err |-> TRUE,  value |-> 0]

RECURSIVE SumMemory(_)
\* podMemoryUsage, starting from the zero Quantity, after Add of every
\* container's memory reading.
SumMemory(containers) ==
    IF containers = <<>> THEN 0
    ELSE Head(containers) + SumMemory(Tail(containers))

\* Quantity.Cmp: -1, 0 or 1.
Cmp(a, b) == IF a < b THEN -1 ELSE IF a = b THEN 0 ELSE 1

\* The comparison with >= 0 in place of == 1.
OverThresholdOrEqual(usage, threshold) == Cmp(usage, threshold) >= 0

\* if podMemoryUsage.Cmp(podMemoryThreshold) == 1
OverThreshold(usage, threshold) == Cmp(usage, threshold) = 1

\* Answers of the eviction API (Evictions(ns).Evict).
EvictResponses == {"ok", "TooManyRequests", "NotFound", "Other"}

\* evictPod: (bool, error) by the API's answer; sent tells whether the API
\* was contacted.
evictPod(dryRun, response) ==
    IF dryRun THEN [evicted |-> TRUE, err |-> FALSE, sent |-> FALSE]
    ELSE CASE response = "ok" ->
                [evicted |-> TRUE, err |-> FALSE, sent |-> TRUE]
           [] response = "TooManyRequests" ->
                [evicted |-> FALSE, err |-> TRUE, sent |-> TRUE]
           [] response = "NotFound" ->
                [evicted |-> TRUE, err |-> TRUE, sent |-> TRUE]
           [] OTHER ->
                [evicted |-> FALSE, err |-> TRUE, sent |-> TRUE]

\* The spec's EvictionOutcome of an answer of the eviction API.
OutcomeOf(response) ==
    CASE response = "ok" -> "Succeeded"
      [] response = "TooManyRequests" -> "Throttled"
      [] response = "NotFound" -> "AlreadyGone"
      [] OTHER -> "Failed"

\* ---------------------------------------------------------- environment

\* Values of a pod's label preoomkiller-enabled; "" is a pod without it.
LabelValues == {"true", "True", ""}

\* A selector that asks for the label key alone.
SelectorKeyOnly(labels) == {p \in Pods : labels[p] # ""}

\* The pods matched by LabelSelector: PreoomkillerPodLabelSelector, that is
\* preoomkiller-enabled=true.
Selector(labels) == {p \in Pods : labels[p] = "true"}

RECURSIVE SeqsUpTo(_)
\* Container readings of one pod: sequences of at most n readings.
SeqsUpTo(n) ==
    IF n = 0 THEN {<<>>}
    ELSE LET shorter == SeqsUpTo(n - 1)
         IN  shorter \cup {Append(s, r) : s \in shorter, r \in Readings}

\* What PodMetricses(ns).Get answers: an error, or the container readings.
MetricsResults ==
    {[err |-> TRUE, containers |-> <<>>]}
    \cup {[err |-> FALSE, containers |-> c] : c \in SeqsUpTo(MaxContainers)}

NoMetrics == [err |-> TRUE, containers |-> <<>>]

Min(S) == CHOOSE x \in S : \A y \in S : x <= y

RECURSIVE Items(_, _)
\* podList.Items: the listed pods in key order, each with its annotation.
Items(S, annf) ==
    IF S = {} THEN <<>>
    ELSE LET p == Min(S)
         IN  <<[name |-> p, annotation |-> annf[p]]>> \o Items(S \ {p}, annf)

\* ---------------------------------------------------------------- state
VARIABLES
    variant,            \* which RunOnce is built
    dryRun,             \* the dry-run toggle of the configuration
    pc,                 \* position of Run / RunOnce / main
    stopClosed,         \* stopCh has been closed by handleSigterm
    tickPending,        \* ticker.C holds a tick (buffer of one)
    podLabels,          \* the label value of each pod of the cluster, this cycle
    podList,            \* podList.Items of the current cycle
    listErr,            \* the current cycle's List failed
    podMetrics,         \* the metrics source of the current cycle, by pod
    idx,                \* index of the pod being handled in podList
    podMemoryThreshold, \* local of RunOnce
    podMemoryUsage,     \* local of RunOnce
    evictionCount,      \* local of RunOnce (logrus variant)
    result,             \* what the last RunOnce returned: "none", "nil", "err"
    parsed,             \* pods whose annotation was parsed this cycle
    fetchReqs,          \* metrics requests sent this cycle, by pod
    compared,           \* pods whose usage was compared this cycle
    evictReqs,          \* eviction requests sent this cycle, by pod
    outcome,            \* outcome of this cycle's eviction request, by pod
    logs,               \* log entries of this cycle: <<level, message, pod>>
    prevThrottled       \* pods whose eviction was throttled in the previous cycle

envVars == <<podLabels, podList, listErr, podMetrics>>
localVars == <<idx, podMemoryThreshold, podMemoryUsage, evictionCount>>
traceVars == <<parsed, fetchReqs, compared, evictReqs, outcome, logs>>
vars == <<variant, dryRun, pc, stopClosed, tickPending, podLabels, podList, listErr, podMetrics,
          idx, podMemoryThreshold, podMemoryUsage, evictionCount, result,
          parsed, fetchReqs, compared, evictReqs, outcome, logs,
          prevThrottled>>

NoPod == 0
NoLabels == [p \in Pods |-> ""]
ZeroCount == [p \in Pods |-> 0]
NoOutcome == [p \in Pods |-> "none"]

\* The state when main calls controller.Run, but for the configuration.
StartState ==
    /\ variant \in Variants
    /\ pc = "list"
    /\ stopClosed = FALSE
    /\ tickPending = FALSE
    /\ podLabels = NoLabels
    /\ podList = <<>>
    /\ listErr = FALSE
    /\ podMetrics = [p \in Pods |-> NoMetrics]
    /\ idx = 0
    /\ podMemoryThreshold = 0
    /\ podMemoryUsage = 0
    /\ evictionCount = 0
    /\ result = "none"
    /\ parsed = {}
    /\ fetchReqs = ZeroCount
    /\ compared = {}
    /\ evictReqs = ZeroCount
    /\ outcome = NoOutcome
    /\ logs = {}
    /\ prevThrottled = {}

\* main builds the controller from kubeconfig, master and interval; there is
\* no flag for a dry run.
Init == StartState /\ dryRun = FALSE

\* A configuration that asks for a dry run.
InitDryRun == StartState /\ dryRun = TRUE

\* The pod record handled now.
pod == podList[idx]

\* ------------------------------------------------------ RunOnce, by step

\* Run with a return on a RunOnce error in place of the log entry.
ReturnErrExits(entry) ==
    /\ pc' = "returned"
    /\ result' = "err"
    /\ logs' = logs \cup {entry}
    /\ idx' = idx
    /\ podMemoryThreshold' = 0
    /\ podMemoryUsage' = 0

\* RunOnce returns err (to Run): Run logs it and goes to its select.  The locals of
\* the for body go out of scope.
ReturnErr(entry) ==
    /\ pc' = "select"
    /\ result' = "err"
    /\ logs' = logs \cup {entry, <<"error", "RunError", NoPod>>}
    /\ idx' = idx
    /\ podMemoryThreshold' = 0
    /\ podMemoryUsage' = 0

\* The for loop with a check of stopCh at the end of its body: a closed
\* stopCh ends RunOnce before the remaining pods.
NextPodChecksStop(entries) ==
    /\ logs' = logs \cup entries
    /\ podMemoryThreshold' = 0
    /\ podMemoryUsage' = 0
    /\ IF idx < Len(podList) /\ ~stopClosed
       THEN /\ pc' = "parse"
            /\ idx' = idx + 1
            /\ result' = result
       ELSE /\ pc' = "select"
            /\ idx' = idx
            /\ result' = "nil"

\* The end of the for body, where its locals go out of scope: the next pod,
\* or the end of RunOnce, which returns nil.
NextPod(entries) ==
    /\ logs' = logs \cup entries
    /\ podMemoryThreshold' = 0
    /\ podMemoryUsage' = 0
    /\ IF idx < Len(podList)
       THEN /\ pc' = "parse"
            /\ idx' = idx + 1
            /\ result' = result
       ELSE /\ pc' = "select"
            /\ idx' = idx
            /\ result' = "nil"

\* A failed List answered by listing again at once.
ListFailureRetry ==
    /\ listErr' = TRUE
    /\ podLabels' = NoLabels
    /\ podList' = <<>>
    /\ podMetrics' = [p \in Pods |-> NoMetrics]
    /\ pc' = "list"
    /\ result' = "err"
    /\ logs' = logs \cup {<<"error", "PodListError", NoPod>>}
    /\ UNCHANGED <<idx, podMemoryThreshold, podMemoryUsage>>

\* Pods("").List failed: RunOnce logs the error and returns it.
ListFailure ==
    /\ listErr' = TRUE
    /\ podLabels' = NoLabels
    /\ podList' = <<>>
    /\ podMetrics' = [p \in Pods |-> NoMetrics]
    /\ ReturnErr(<<"error", "PodListError", NoPod>>)

\* Pods("").List answered: the pods of the cluster matched by the label
\* selector, in key order, and with them the cluster's metrics of this
\* cycle.
ListSuccess ==
    \E labels \in [Pods -> LabelValues] :
    \E annf \in [Selector(labels) -> Annotations] :
    \E m \in [Selector(labels) -> MetricsResults] :
    LET S == Selector(labels) IN
      /\ listErr' = FALSE
      /\ podLabels' = labels
      /\ podList' = Items(S, annf)
      /\ podMetrics' = [p \in Pods |-> IF p \in S THEN m[p] ELSE NoMetrics]
      /\ logs' = {}
      /\ UNCHANGED <<podMemoryThreshold, podMemoryUsage>>
      /\ IF S = {}
         THEN /\ pc' = "select"
              /\ idx' = 0
              /\ result' = "nil"
         ELSE /\ pc' = "parse"
              /\ idx' = 1
              /\ result' = "none"

\* RunOnce with an evictionCount that outlives the call.
ListKeepsCount ==
    /\ pc = "list"
    /\ evictionCount' = evictionCount
    /\ (ListFailure \/ ListSuccess)
    /\ UNCHANGED <<variant, dryRun, stopClosed, tickPending, parsed, fetchReqs,
                   compared, evictReqs, outcome, prevThrottled>>

\* The start of RunOnce: evictionCount := 0 and the listing of the pods.
List ==
    /\ pc = "list"
    /\ evictionCount' = 0
    /\ (ListFailure \/ ListSuccess)
    /\ UNCHANGED <<variant, dryRun, stopClosed, tickPending, parsed, fetchReqs,
                   compared, evictReqs, outcome, prevThrottled>>

\* RunOnce without a check of the parse error: the metrics are fetched with
\* the zero threshold.
ParseThresholdIgnoresError ==
    /\ pc = "parse"
    /\ parsed' = parsed \cup {pod.name}
    /\ podMemoryThreshold' = ParseQuantity(pod.annotation).value
    /\ pc' = "fetch"
    /\ UNCHANGED <<idx, podMemoryUsage, result, logs>>
    /\ UNCHANGED <<variant, dryRun, stopClosed, tickPending, envVars,
                   evictionCount, fetchReqs, compared, evictReqs, outcome,
                   prevThrottled>>

\* resource.ParseQuantity of the pod's annotation and the handling of its
\* error: `return err` in the klog variant, `continue` in the logrus variant.
ParseThreshold ==
    /\ pc = "parse"
    /\ parsed' = parsed \cup {pod.name}
    /\ LET q == ParseQuantity(pod.annotation)
           entry == <<"error", "PodMemoryThresholdFetchError", pod.name>>
       IN  IF q.err
           THEN IF variant = "klog"
                THEN ReturnErr(entry)
                ELSE NextPod({entry})
           ELSE /\ podMemoryThreshold' = q.value
                /\ pc' = "fetch"
                /\ UNCHANGED <<idx, podMemoryUsage, result, logs>>
    /\ UNCHANGED <<variant, dryRun, stopClosed, tickPending, envVars,
                   evictionCount, fetchReqs, compared, evictReqs, outcome,
                   prevThrottled>>

\* PodMetricses(ns).Get for the pod and the sum over its containers; an
\* error is returned from RunOnce.
FetchMetrics ==
    /\ pc = "fetch"
    /\ fetchReqs' = [fetchReqs EXCEPT ![pod.name] = @ + 1]
    /\ LET m == podMetrics[pod.name]
       IN  IF m.err
           THEN ReturnErr(<<"error", "PodMetricsFetchError", pod.name>>)
           ELSE /\ podMemoryUsage' = SumMemory(m.containers)
                /\ pc' = "eval"
                /\ UNCHANGED <<idx, podMemoryThreshold, result, logs>>
    /\ UNCHANGED <<variant, dryRun, stopClosed, tickPending, envVars,
                   evictionCount, parsed, compared,
                   evictReqs, outcome, prevThrottled>>

\* The comparison of usage and threshold.
Evaluate ==
    /\ pc = "eval"
    /\ compared' = compared \cup {pod.name}
    /\ IF OverThreshold(podMemoryUsage, podMemoryThreshold)
       THEN /\ pc' = "evict"
            /\ UNCHANGED <<idx, podMemoryThreshold, podMemoryUsage, result,
                           logs>>
       ELSE NextPod({})
    /\ UNCHANGED <<variant, dryRun, stopClosed, tickPending, envVars, evictionCount, parsed,
                   fetchReqs, evictReqs, outcome, prevThrottled>>

\* RunOnce with `return err` on an eviction error.
EvictAborts ==
    /\ pc = "evict"
    /\ \E response \in EvictResponses :
         LET r == evictPod(FALSE, response)
         IN  /\ evictReqs' = [evictReqs EXCEPT
                                ![pod.name] = IF r.sent THEN @ + 1 ELSE @]
             /\ outcome' = [outcome EXCEPT ![pod.name] = OutcomeOf(response)]
             /\ IF r.err
                THEN /\ ReturnErr(<<"error", "PodEvictionError", pod.name>>)
                     /\ evictionCount' = evictionCount
                ELSE /\ NextPod(IF variant = "logrus"
                                THEN {<<"info", "PodEvicted", pod.name>>}
                                ELSE {})
                     /\ evictionCount' = IF variant = "logrus"
                                         THEN evictionCount + 1
                                         ELSE evictionCount
    /\ UNCHANGED <<variant, dryRun, stopClosed, tickPending, envVars, parsed,
                   fetchReqs, compared, prevThrottled>>

\* evictPod(..., false) and the handling of its error in RunOnce: the bool
\* is dropped; an error is logged, no error counts an eviction.
Evict ==
    /\ pc = "evict"
    /\ \E response \in EvictResponses :
         LET r == evictPod(FALSE, response)
         IN  /\ evictReqs' = [evictReqs EXCEPT
                                ![pod.name] = IF r.sent THEN @ + 1 ELSE @]
             /\ outcome' = [outcome EXCEPT ![pod.name] = OutcomeOf(response)]
             /\ IF r.err
                THEN /\ NextPod({<<"error", "PodEvictionError", pod.name>>})
                     /\ evictionCount' = evictionCount
                ELSE /\ NextPod(IF variant = "logrus"
                                THEN {<<"info", "PodEvicted", pod.name>>}
                                ELSE {})
                     /\ evictionCount' = IF variant = "logrus"
                                         THEN evictionCount + 1
                                         ELSE evictionCount
    /\ UNCHANGED <<variant, dryRun, stopClosed, tickPending, envVars, parsed,
                   fetchReqs, compared, prevThrottled>>

\* ------------------------------------------------------------------ Run

\* The next iteration started on a pending tick that is left in ticker.C.
SelectTickKeepsTick ==
    /\ pc = "select"
    /\ tickPending
    /\ tickPending' = tickPending
    /\ pc' = "list"
    /\ prevThrottled' = {p \in Pods : outcome[p] = "Throttled"}
    /\ podLabels' = NoLabels
    /\ podList' = <<>>
    /\ listErr' = FALSE
    /\ podMetrics' = [p \in Pods |-> NoMetrics]
    /\ idx' = 0
    /\ result' = "none"
    /\ parsed' = {}
    /\ fetchReqs' = ZeroCount
    /\ compared' = {}
    /\ evictReqs' = ZeroCount
    /\ outcome' = NoOutcome
    /\ logs' = {}
    /\ UNCHANGED <<variant, dryRun, stopClosed, podMemoryThreshold, podMemoryUsage,
                   evictionCount>>

\* select: case <-ticker.C, and the next iteration of the for loop.  The
\* finished cycle's pod list and records are dropped here; what is kept of
\* it is the set of pods whose eviction was throttled.
SelectTick ==
    /\ pc = "select"
    /\ tickPending
    /\ tickPending' = FALSE
    /\ pc' = "list"
    /\ prevThrottled' = {p \in Pods : outcome[p] = "Throttled"}
    /\ podLabels' = NoLabels
    /\ podList' = <<>>
    /\ listErr' = FALSE
    /\ podMetrics' = [p \in Pods |-> NoMetrics]
    /\ idx' = 0
    /\ result' = "none"
    /\ parsed' = {}
    /\ fetchReqs' = ZeroCount
    /\ compared' = {}
    /\ evictReqs' = ZeroCount
    /\ outcome' = NoOutcome
    /\ logs' = {}
    /\ UNCHANGED <<variant, dryRun, stopClosed, podMemoryThreshold, podMemoryUsage,
                   evictionCount>>

\* A select that takes a pending tick before it looks at stopCh.
SelectStopAfterTick ==
    /\ pc = "select"
    /\ stopClosed
    /\ ~tickPending
    /\ pc' = "returned"
    /\ UNCHANGED <<variant, dryRun, stopClosed, tickPending, envVars, localVars,
                   result, traceVars, prevThrottled>>

\* select: case <-stopCh, which returns from Run.
SelectStop ==
    /\ pc = "select"
    /\ stopClosed
    /\ pc' = "returned"
    /\ UNCHANGED <<variant, dryRun, stopClosed, tickPending, envVars, localVars,
                   result, traceVars, prevThrottled>>

\* main after controller.Run returned: the deferred close(stopCh).  Closing
\* a closed channel panics.
DeferredClose ==
    /\ pc = "returned"
    /\ pc' = IF stopClosed THEN "panicked" ELSE "exited"
    /\ stopClosed' = TRUE
    /\ UNCHANGED <<variant, dryRun, tickPending, envVars, localVars, result,
                   traceVars, prevThrottled>>

\* ---------------------------------------------------------- environment

\* The ticker sends on ticker.C; a tick is dropped when one is pending.
Tick ==
    /\ pc \notin {"returned", "panicked", "exited"}
    /\ ~tickPending
    /\ tickPending' = TRUE
    /\ UNCHANGED <<variant, dryRun, pc, stopClosed, envVars, localVars, result,
                   traceVars, prevThrottled>>

\* handleSigterm receives SIGTERM and closes stopCh.
handleSigterm ==
    /\ pc \notin {"panicked", "exited"}
    /\ ~stopClosed
    /\ stopClosed' = TRUE
    /\ UNCHANGED <<variant, dryRun, pc, tickPending, envVars, localVars, result,
                   traceVars, prevThrottled>>

Next ==
    \/ List
    \/ ParseThreshold
    \/ FetchMetrics
    \/ Evaluate
    \/ Evict
    \/ SelectTick
    \/ SelectStop
    \/ DeferredClose
    \/ Tick
    \/ handleSigterm

\* Both variants of the controller.
Spec == Init /\ [][Next]_vars

\* The logrus variant alone (src/main.go:181-402).
InitLogrus == Init /\ variant = "logrus"

SpecLogrus == InitLogrus /\ [][Next]_vars

\* The klog variant alone (src/main.go:1-179).
InitKlog == Init /\ variant = "klog"

SpecKlog == InitKlog /\ [][Next]_vars

\* The controller under a configuration that asks for a dry run.
SpecDryRun == InitDryRun /\ [][Next]_vars

\* The goroutine of Run keeps running and the ticker keeps ticking; SIGTERM
\* may never come.
Fairness ==
    /\ WF_vars(List)
    /\ WF_vars(ParseThreshold)
    /\ WF_vars(FetchMetrics)
    /\ WF_vars(Evaluate)
    /\ WF_vars(Evict)
    /\ WF_vars(SelectTick)
    /\ WF_vars(SelectStop)
    /\ WF_vars(DeferredClose)
    /\ WF_vars(Tick)

FairSpecLogrus == SpecLogrus /\ Fairness

\* Go's select picks among its ready cases at random: a case that is ready
\* again and again is taken in the end.
FairSpecSelect == Spec /\ Fairness /\ SF_vars(SelectStop)

\* ------------------------------------------------- vocabulary of the claims

\* A RunOnce call has returned and its records are still held.
CycleEnded == pc \in {"select", "returned", "panicked", "exited"}

Listed(p) == \E i \in DOMAIN podList : podList[i].name = p

\* Position of a listed pod in podList.
IndexOf(p) == CHOOSE i \in DOMAIN podList : podList[i].name = p

AnnotationOf(p) == podList[IndexOf(p)].annotation

\* The pod is listed and its annotation is absent or no quantity.
Malformed(p) == Listed(p) /\ ParseQuantity(AnnotationOf(p)).err

\* The pod is listed with a threshold that parses.
ValidThreshold(p) == Listed(p) /\ ~ParseQuantity(AnnotationOf(p)).err

\* The pod is listed with a threshold that parses and the metrics source
\* has readings for it.
Measurable(p) == ValidThreshold(p) /\ ~podMetrics[p].err

UsageOf(p) == SumMemory(podMetrics[p].containers)

ThresholdOf(p) == ParseQuantity(AnnotationOf(p)).value

\* The pod is a candidate of this cycle whose summed usage is strictly
\* greater than its threshold.
Violating(p) == Measurable(p) /\ UsageOf(p) > ThresholdOf(p)

\* ------------------------------------------------------------------ C1

\* C1: at the end of a cycle whose listing succeeded, every candidate whose
\* summed usage is strictly greater than its threshold has been sent exactly
\* one eviction request, whatever happened to the other candidates.
C1_ExactlyOneEvictionPerViolator ==
    (CycleEnded /\ ~listErr) =>
        \A p \in Pods : Violating(p) => evictReqs[p] = 1

\* ------------------------------------------------------------------ C2

\* C2: an eviction request exists only for a candidate whose summed usage is
\* strictly greater than its threshold; a candidate at or below its
\* threshold has none.
C2_EvictionOnlyAboveThreshold ==
    \A p \in Pods : evictReqs[p] > 0 => Violating(p)

\* A cycle has compared a candidate exactly at its threshold and sent it no
\* eviction request, and has evicted another candidate.
C2_Witness ==
    /\ CycleEnded
    /\ \E p \in compared :
         /\ Measurable(p)
         /\ UsageOf(p) = ThresholdOf(p)
         /\ evictReqs[p] = 0
    /\ \E q \in Pods : evictReqs[q] = 1

\* ------------------------------------------------------------------ C3

\* C3: when the metrics fetch of a candidate failed, every candidate after
\* it in the listing has still been parsed, measured if its threshold
\* parses, compared if it has metrics and evicted if over its threshold, by
\* the end of the cycle.
C3_MetricsFailureSkipsOneCandidate ==
    CycleEnded =>
        \A p, q \in Pods :
            ( /\ Listed(p) /\ Listed(q) /\ IndexOf(p) < IndexOf(q)
              /\ fetchReqs[p] > 0 /\ podMetrics[p].err )
            => /\ q \in parsed
               /\ ValidThreshold(q) => fetchReqs[q] = 1
               /\ Measurable(q) => q \in compared
               /\ Violating(q) => evictReqs[q] = 1


\* ------------------------------------------------------------------ C4

\* C4: at the end of a cycle whose listing succeeded, a candidate whose
\* threshold annotation is absent or malformed has had no metrics fetch and
\* no eviction request, and every other candidate of the listing, before or
\* after it, has been parsed, measured and compared where it could be, and
\* evicted if over its threshold.
C4_MalformedThresholdSkipsOneCandidate ==
    (CycleEnded /\ ~listErr) =>
        \A p \in Pods :
            Malformed(p) =>
                /\ fetchReqs[p] = 0
                /\ evictReqs[p] = 0
                /\ \A q \in Pods \ {p} :
                     /\ Listed(q) => q \in parsed
                     /\ ValidThreshold(q) => fetchReqs[q] = 1
                     /\ Measurable(q) => q \in compared
                     /\ Violating(q) => evictReqs[q] = 1

\* ------------------------------------------------------------------ C5

\* C5: a RunOnce call returns an error if and only if its listing failed.
C5_ErrorIffListingFailed ==
    CycleEnded => (result = "err" <=> listErr)

\* ------------------------------------------------------------------ C6

\* C6: at the end of a cycle, a candidate whose eviction was answered "not
\* found" has no error log entry, and the eviction count counts the
\* candidates whose outcome is Succeeded or AlreadyGone.
C6_AlreadyGoneCountsAsSuccess ==
    CycleEnded =>
        /\ \A p \in Pods :
             outcome[p] = "AlreadyGone" =>
                 <<"error", "PodEvictionError", p>> \notin logs
        /\ evictionCount =
             Cardinality({p \in Pods : outcome[p] \in {"Succeeded", "AlreadyGone"}})

\* ------------------------------------------------------------------ C7

\* C7: a candidate whose eviction was throttled has exactly one eviction
\* request in that cycle, and a candidate throttled in the previous cycle
\* that is listed again and over its threshold has an eviction request by
\* the end of the cycle.
C7_ThrottledDeferredToNextCycle ==
    /\ \A p \in Pods : outcome[p] = "Throttled" => evictReqs[p] = 1
    /\ (CycleEnded /\ ~listErr) =>
           \A p \in prevThrottled : Violating(p) => evictReqs[p] >= 1

\* ------------------------------------------------------------------ C8

\* C8: while cycles keep running, a pod cannot stay an over-threshold
\* candidate of every cycle and never be sent an eviction request:
\* eventually the stop channel is closed, or a cycle does not have the pod
\* as an over-threshold candidate, or the pod is sent an eviction request.
C8_ViolatorEventuallySentEviction ==
    \A p \in Pods :
        <>( \/ stopClosed
            \/ (pc # "list" /\ ~Violating(p))
            \/ evictReqs[p] > 0 )

\* ------------------------------------------------------------------ C9

\* C9: a failed listing ends the cycle with the error handed to Run and with
\* no candidate parsed, measured, compared or evicted; from there Run starts
\* the next cycle only by receiving a tick and returns only when the stop
\* channel is closed.
C9_ListFailureWaitsForTick ==
    [][ /\ (pc = "list" /\ listErr') =>
             /\ pc' = "select"
             /\ result' = "err"
             /\ <<"error", "RunError", NoPod>> \in logs'
        /\ listErr' =>
             /\ parsed' = {} /\ compared' = {}
             /\ fetchReqs' = ZeroCount /\ evictReqs' = ZeroCount
        /\ (listErr /\ pc' # pc) =>
             \/ pc' = "list" /\ pc = "select" /\ tickPending /\ ~tickPending'
             \/ pc' = "returned" /\ stopClosed
             \/ pc' = "panicked" /\ pc = "returned"
      ]_vars

\* A listing has failed and Run waits in its select with neither a tick nor
\* a stop to receive.
C9_Witness ==
    /\ listErr
    /\ pc = "select"
    /\ result = "err"
    /\ ~tickPending
    /\ ~stopClosed

\* ----------------------------------------------------------------- C10

\* C10: Run has returned only if the stop channel has been closed, whatever
\* the cycles returned.
C10_RunReturnsOnlyAfterStop ==
    pc = "returned" => stopClosed

\* Run has returned right after a cycle that returned an error.
C10_Witness ==
    /\ pc = "returned"
    /\ result = "err"
    /\ stopClosed

\* ----------------------------------------------------------------- C11

\* RunOnce is between its listing and its return.
InCycle == pc \in {"parse", "fetch", "eval", "evict"}

\* The names of the pods of podList.
ListedPods == {podList[i].name : i \in DOMAIN podList}

\* The error entries RunOnce logs before it returns an error.
AbortEntries ==
    {<<"error", "PodListError", NoPod>>}
    \cup {<<"error", m, p>> :
            m \in {"PodMemoryThresholdFetchError", "PodMetricsFetchError"},
            p \in Pods}

C12_NoCycleAfterStop ==
    [][ stopClosed => ~(pc = "select" /\ pc' = "list") ]_vars

\* ----------------------------------------------------------------- C13

\* C13: a tick is taken from ticker.C only by the step from the select to
\* the next cycle, so none is taken before the first cycle; a cycle after
\* the first starts only by that step, which takes exactly the one pending
\* tick.
C13_OneTickBetweenCycles ==
    [][ /\ (tickPending /\ ~tickPending') => (pc = "select" /\ pc' = "list")
        /\ (pc' = "list" /\ pc # "list") =>
             (pc = "select" /\ tickPending /\ ~tickPending')
        /\ (pc = "list" /\ pc' # "list") => tickPending' = tickPending
      ]_vars

\* A cycle after the first is under way: the cycle before it throttled an
\* eviction, and the tick that started this one has been taken.
C13_Witness ==
    /\ InCycle
    /\ prevThrottled # {}
    /\ ~tickPending

\* ----------------------------------------------------------------- C14

C15_EvictionOnlyForLabelledPods ==
    \A p \in Pods :
        evictReqs[p] > 0 => (Listed(p) /\ podLabels[p] = "true")

\* A cycle has sent an eviction request while the cluster held a pod with
\* the label key and another value, which was not listed.
C15_Witness ==
    /\ CycleEnded
    /\ \E p \in Pods : evictReqs[p] = 1
    /\ \E q \in Pods : podLabels[q] = "True" /\ ~Listed(q)

\* ----------------------------------------------------------------- C16

\* C16: the stop channel is closed at most once: main's deferred close never
\* closes a channel that handleSigterm has closed, so main never panics.
C16_StopChannelClosedOnce ==
    pc # "panicked"

\* ----------------------------------------------------------------- C17

C18_StopLeadsToReturn ==
    stopClosed ~> (pc \in {"returned", "panicked", "exited"})

\* Run has returned while a tick was pending in ticker.C.
C18_Witness ==
    /\ pc = "returned"
    /\ stopClosed
    /\ tickPending

\* ----------------------------------------------------------------- C19

\* C19: the steps of a cycle are ordered.  Nothing is parsed, fetched,
\* compared or evicted before the listing; the pods are handled one at a
\* time in the order of the listing, the pods before the current one being
\* done; for a pod the parse comes before the metrics fetch, the fetch
\* before the comparison and the comparison before the eviction request; a
\* pod whose threshold did not parse gets no metrics fetch, and a pod whose
\* metrics fetch failed gets no comparison and no eviction request.
C19_StepsOrdered ==
    [][ /\ pc = "list" =>
             /\ parsed = {} /\ compared = {}
             /\ fetchReqs = ZeroCount /\ evictReqs = ZeroCount
        /\ InCycle' =>
             /\ idx' \in DOMAIN podList'
             /\ parsed' = {podList'[i].name :
                             i \in 1..(IF pc' = "parse" THEN idx' - 1 ELSE idx')}
        /\ (InCycle /\ InCycle') =>
             /\ podList' = podList
             /\ idx' \in {idx, idx + 1}
             /\ idx' = idx + 1 => (pc' = "parse" /\ pc \in {"parse", "eval", "evict"})
        /\ (pc' # pc /\ InCycle) =>
             \/ pc = "parse" /\ pc' \in {"fetch", "parse", "select"}
             \/ pc = "fetch" /\ pc' \in {"eval", "select"}
             \/ pc = "eval" /\ pc' \in {"evict", "parse", "select"}
             \/ pc = "evict" /\ pc' \in {"parse", "select"}
        /\ (pc = "parse" /\ pc' = "fetch") => ~Malformed(pod.name)
        /\ (fetchReqs' # fetchReqs /\ pc' # "list") =>
             /\ pc = "fetch"
             /\ pod.name \in parsed
             /\ ~Malformed(pod.name)
             /\ pod.name \notin compared
             /\ fetchReqs' = [fetchReqs EXCEPT ![pod.name] = 1]
        /\ (compared' # compared /\ pc' # "list") =>
             /\ pc = "eval"
             /\ fetchReqs[pod.name] = 1
             /\ ~podMetrics[pod.name].err
             /\ evictReqs[pod.name] = 0
             /\ compared' = compared \cup {pod.name}
        /\ (evictReqs' # evictReqs /\ pc' # "list") =>
             /\ pc = "evict"
             /\ pod.name \in compared
             /\ evictReqs' = [evictReqs EXCEPT ![pod.name] = 1]
      ]_vars

\* A cycle over a full listing has ended in which the first pod was
\* compared and the last pod was sent an eviction request.
C19_Witness ==
    /\ CycleEnded
    /\ Len(podList) = MaxPods
    /\ podList[1].name \in compared
    /\ evictReqs[podList[Len(podList)].name] = 1

\* ----------------------------------------------------------------- C20

\* The pods whose eviction request of this cycle returned without error.
EvictedWithoutError ==
    {p \in Pods : /\ evictReqs[p] > 0
                  /\ <<"error", "PodEvictionError", p>> \notin logs}

\* C20: from the listing on, the eviction count of the cycle is the number
\* of its eviction requests that returned without error, so it is zero when
\* the cycle starts whatever the cycle before it counted; it never exceeds
\* the number of listed pods, and no pod with a Throttled or Failed outcome
\* is counted.
C20_EvictionCountPerCycle ==
    pc # "list" =>
        /\ evictionCount = Cardinality(EvictedWithoutError)
        /\ evictionCount <= Len(podList)
        /\ \A p \in EvictedWithoutError : outcome[p] \notin {"Throttled", "Failed"}
        /\ (InCycle /\ idx = 1 /\ pc # "evict") => evictionCount = 0

\* A cycle has ended with one eviction counted and another one throttled.
C20_Witness ==
    /\ CycleEnded
    /\ evictionCount = 1
    /\ \E p \in Pods : outcome[p] = "Throttled"

====
